---- MODULE Spec2Model ----
(***************************************************************************)
(* Terminal-session manager of src/ui/src-tauri/src/terminal.rs: the       *)
(* session table behind one mutex, the atomic session counter, the five    *)
(* commands (spawn, write, resize, kill, list) run by concurrent callers,  *)
(* and one output pump thread per spawned session.                         *)
(***************************************************************************)
EXTENDS Integers, Sequences, FiniteSets, TLC

(* ------------------------------ bounds --------------------------------- *)

\* Cap on the commands the callers invoke in a run. It also caps the
\* identifiers SESSION_COUNTER hands out: the counter is an AtomicU32 whose
\* fetch_add wraps at 2^32, and every run here stays far below that, so the
\* wrap is outside what this model explores.
MaxCalls == 3
\* Cap on the non-empty reads the pumps perform in a run, all together.
MaxReads == 1
\* The same two caps in the runs with richer inputs or with fairness (see
\* PumpEnv, BusEnv, ExitEnv, FairEnv).
MaxPumpCalls == 2
MaxPumpReads == 2

(* ------------------------- program constants --------------------------- *)

DefaultRows == 24
DefaultCols == 80

(* ------------------------------ domains -------------------------------- *)

\* The threads that invoke commands: two, so that any two commands can
\* overlap (each pump is a further thread of its own).
Callers == {1, 2}
\* Identifiers the counter can hand out within the bounds.
Ids == 0 .. (MaxCalls - 1)
\* Identifiers that can appear as an argument: the above and one more, which
\* is never allocated.
ArgIds == 0 .. MaxCalls
NoId == -1
\* cols/rows of None: the (cols, rows) pair spawn_terminal gets when the
\* caller passes neither.
NoSize == <<0, 0>>
\* A geometry a caller may pass (cols, rows).
Wide == <<100, 30>>

\* What the outside world feeds the program in a run: the payloads callers
\* write (non-empty byte strings), the sizes they spawn with, the chunks the
\* PTY delivers to a read, the outcomes of child.wait(), and whether the
\* event bus takes an event handed to it (emit returns Ok) or not (emit
\* returns Err); and how many commands and non-empty reads the run has. A run
\* keeps its environment.
PlainEnv ==
    [payloads |-> {<<"a">>}, sizes |-> {NoSize}, chunks |-> {<<"h">>},
     waits |-> {"Ok(success)"}, bus |-> {TRUE},
     maxCalls |-> MaxCalls, maxReads |-> MaxReads]

\* Callers write two different two-byte strings.
WriteEnv == [PlainEnv EXCEPT !.payloads = {<<"a", "b">>, <<"c", "d">>}]

\* The PTY delivers more chunks, of well-formed text and of malformed bytes.
PumpEnv ==
    [PlainEnv EXCEPT !.chunks = {<<"h">>, <<"0xFF">>},
                     !.maxCalls = MaxPumpCalls,
                     !.maxReads = MaxPumpReads]

\* The PTY delivers chunks with a malformed byte in them and the event bus
\* may refuse an event.
BusEnv ==
    [PlainEnv EXCEPT !.chunks = {<<"h", "0xFF">>},
                     !.bus = {TRUE, FALSE},
                     !.maxCalls = MaxPumpCalls,
                     !.maxReads = MaxPumpReads]

\* child.wait() returns a successful status, an unsuccessful one, or fails.
ExitEnv ==
    [PlainEnv EXCEPT !.waits = {"Ok(success)", "Ok(failure)", "Err"},
                     !.maxCalls = MaxPumpCalls]

\* The plain inputs in a run of fewer commands.
FairEnv == [PlainEnv EXCEPT !.maxCalls = MaxPumpCalls]

\* Threads that can hold the table mutex.
NoThread == <<"none", 0>>
CallerThread(c) == <<"caller", c>>
PumpThread(s) == <<"pump", s>>

VARIABLES
    counter,     \* SESSION_COUNTER
    sessions,    \* TerminalState.sessions: the keys of the HashMap
    lock,        \* holder of the Mutex around the HashMap
    pc,          \* per caller: position inside the running command
    arg,         \* per caller: session_id (argument, or spawn's local)
    data,        \* per caller: the data argument of write_terminal, as bytes
    sent,        \* per caller: bytes of data that write_all has written so far
    geom,        \* per caller: the (cols, rows) of spawn's PtySize / resize
    result,      \* per caller: the value its command returns in the step
                 \* just taken (NoResult after any other step)
    calls,       \* number of commands invoked so far
    pump,        \* per session: position of the pump thread
    waited,      \* per session: what child.wait() returned to the pump
    exitCode,    \* per session: exit_code computed by the pump
    events,      \* per pump: the events it handed to the event bus, in order
    reads,       \* per session: chunks the pump has read, in order
    shellInput,  \* per session: bytes written to the PTY writer, in order
    ptySize,     \* per session: geometry of the PTY (cols, rows)
    returned,    \* per id: number of spawn calls that returned Ok(id)
    killOk,      \* per id: number of kill calls that returned Ok
    removals,    \* per id: number of remove() calls that removed the entry
    completed,   \* per session: the data of the write calls that returned Ok,
                 \* in the order they returned
    env          \* the environment of the run (see PlainEnv)

vars == <<counter, sessions, lock, pc, arg, data, sent, geom, result, calls, pump,
          waited, exitCode, events, reads, shellInput, ptySize, returned, killOk,
          removals, completed, env>>

callerVars == <<pc, arg, data, sent, geom, calls>>
pumpVars == <<pump, waited, exitCode, events, reads>>
ptyVars == <<shellInput, ptySize>>
histVars == <<returned, killOk, removals, completed, env>>

(* ------------------------------ results -------------------------------- *)

NoResult == [tag |-> "none", val |-> {}]
Ok(v) == [tag |-> "Ok", val |-> v]
\* Err("Failed to open PTY / spawn shell / clone reader / take writer: ..")
ProvisioningError == [tag |-> "ProvisioningError", val |-> {}]
\* Err("Terminal session {} not found")
SessionNotFound == [tag |-> "SessionNotFound", val |-> {}]
\* Err("Failed to write to terminal / flush terminal / resize terminal: ..")
IoError == [tag |-> "IoError", val |-> {}]

(* -------------------------------- events ------------------------------- *)

TerminalOutput(s, d) == [topic |-> "terminal-output", session_id |-> s, body |-> d]
TerminalExit(s, code) == [topic |-> "terminal-exit", session_id |-> s, body |-> code]

\* let _ = app_handle.emit(topic, payload): pump s hands ev to the event bus,
\* which takes it or not, and the result is discarded.
Emit(s, ev) ==
    \E ok \in env.bus :
       events' = [events EXCEPT ![s] =
                    Append(@, [topic |-> ev.topic, session_id |-> ev.session_id,
                               body |-> ev.body, accepted |-> ok])]

RECURSIVE CountTopic(_, _)
CountTopic(seq, topic) ==
    IF seq = <<>> THEN 0
    ELSE (IF Head(seq).topic = topic THEN 1 ELSE 0) + CountTopic(Tail(seq), topic)

ExitCount(s) == CountTopic(events[s], "terminal-exit")
OutputCount(s) == CountTopic(events[s], "terminal-output")

(* -------------------------------- mutex -------------------------------- *)

\* parking_lot::Mutex::lock(): blocks until the mutex is free.
Acquire(t) == lock = NoThread /\ lock' = t
\* The guard goes out of scope.
Release(t) == lock = t /\ lock' = NoThread

\* No command returns in this step.
Silent == result' = [x \in Callers |-> NoResult]

\* The command returns r: its locals are gone and the caller is idle again.
Return(c, r) ==
    /\ pc' = [pc EXCEPT ![c] = "idle"]
    /\ result' = [x \in Callers |-> IF x = c THEN r ELSE NoResult]
    /\ arg' = [arg EXCEPT ![c] = NoId]
    /\ data' = [data EXCEPT ![c] = <<>>]
    /\ sent' = [sent EXCEPT ![c] = 0]
    /\ geom' = [geom EXCEPT ![c] = NoSize]
    /\ UNCHANGED calls

\* The command moves on to its next statement.
Goto(c, label) ==
    /\ pc' = [pc EXCEPT ![c] = label]
    /\ Silent
    /\ UNCHANGED <<arg, data, sent, geom, calls>>

\* A command is invoked with session id s, payload d and geometry g.
Call(c, label, s, d, g) ==
    /\ pc[c] = "idle"
    /\ calls < env.maxCalls
    /\ calls' = calls + 1
    /\ pc' = [pc EXCEPT ![c] = label]
    /\ arg' = [arg EXCEPT ![c] = s]
    /\ data' = [data EXCEPT ![c] = d]
    /\ geom' = [geom EXCEPT ![c] = g]
    /\ UNCHANGED sent
    /\ Silent

\* The state after run() has built the application, in environment e.
InitFor(e) ==
    /\ env = e
    /\ counter = 0
    /\ sessions = {}
    /\ lock = NoThread
    /\ pc = [c \in Callers |-> "idle"]
    /\ arg = [c \in Callers |-> NoId]
    /\ data = [c \in Callers |-> <<>>]
    /\ sent = [c \in Callers |-> 0]
    /\ geom = [c \in Callers |-> NoSize]
    /\ result = [c \in Callers |-> NoResult]
    /\ calls = 0
    /\ pump = [s \in Ids |-> "none"]
    /\ waited = [s \in Ids |-> "unset"]
    /\ exitCode = [s \in Ids |-> "unset"]
    /\ events = [s \in Ids |-> <<>>]
    /\ reads = [s \in Ids |-> <<>>]
    /\ shellInput = [s \in Ids |-> <<>>]
    /\ ptySize = [s \in Ids |-> NoSize]
    /\ returned = [s \in Ids |-> 0]
    /\ killOk = [s \in ArgIds |-> 0]
    /\ removals = [s \in ArgIds |-> 0]
    /\ completed = [s \in Ids |-> <<>>]

Init == InitFor(PlainEnv)

\* The identifiers a caller passes to write, resize and kill: every one
\* allocated so far, and the next one, which no spawn has been given yet.
KnownIds == 0 .. counter

(* --------------------------- spawn_terminal ---------------------------- *)

\* rows.unwrap_or(24), cols.unwrap_or(80)
SizeOrDefault(g) == IF g = NoSize THEN <<DefaultCols, DefaultRows>> ELSE g

\* A caller invokes spawn_terminal(cols, rows, cwd).
SpawnCall(c) ==
    /\ \E g \in env.sizes :
          Call(c, "openpty", NoId, <<>>, SizeOrDefault(g))
    /\ UNCHANGED <<counter, sessions, lock, pumpVars, ptyVars, histVars>>

\* pty_system.openpty(size).map_err(..)?
OpenPty(c) ==
    /\ pc[c] = "openpty"
    /\ \/ Goto(c, "spawn_command")
       \/ Return(c, ProvisioningError)
    /\ UNCHANGED <<counter, sessions, lock, pumpVars, ptyVars, histVars>>

\* pair.slave.spawn_command(cmd).map_err(..)?
SpawnCommand(c) ==
    /\ pc[c] = "spawn_command"
    /\ \/ Goto(c, "fetch_add")
       \/ Return(c, ProvisioningError)
    /\ UNCHANGED <<counter, sessions, lock, pumpVars, ptyVars, histVars>>

\* FetchAdd with the counter only loaded, never advanced.
FetchAdd_LoadOnly(c) ==
    /\ pc[c] = "fetch_add"
    /\ arg' = [arg EXCEPT ![c] = counter]
    /\ pc' = [pc EXCEPT ![c] = "clone_reader"]
    /\ Silent
    /\ UNCHANGED <<counter, sessions, lock, data, sent, geom, calls, pumpVars,
                   ptyVars, histVars>>

\* FetchAdd returning the value of the counter after the addition.
FetchAdd_AddFetch(c) ==
    /\ pc[c] = "fetch_add"
    /\ arg' = [arg EXCEPT ![c] = counter + 1]
    /\ counter' = counter + 1
    /\ pc' = [pc EXCEPT ![c] = "clone_reader"]
    /\ Silent
    /\ UNCHANGED <<sessions, lock, data, sent, geom, calls, pumpVars, ptyVars, histVars>>

\* FetchAdd handing out the smallest identifier not in the table, so that the
\* identifier of a removed session is used again.
FetchAdd_Recycle(c) ==
    /\ pc[c] = "fetch_add"
    /\ Silent
    /\ arg' = [arg EXCEPT ![c] =
                 CHOOSE s \in Ids : s \notin sessions /\ \A t \in 0 .. (s - 1) : t \in sessions]
    /\ counter' = counter + 1
    /\ pc' = [pc EXCEPT ![c] = "clone_reader"]
    /\ UNCHANGED <<sessions, lock, data, sent, geom, calls, pumpVars, ptyVars, histVars>>

\* let session_id = SESSION_COUNTER.fetch_add(1, Ordering::SeqCst);
FetchAdd(c) ==
    /\ pc[c] = "fetch_add"
    /\ arg' = [arg EXCEPT ![c] = counter]
    /\ counter' = counter + 1
    /\ pc' = [pc EXCEPT ![c] = "clone_reader"]
    /\ Silent
    /\ UNCHANGED <<sessions, lock, data, sent, geom, calls, pumpVars, ptyVars, histVars>>

\* pair.master.try_clone_reader().map_err(..)?
TryCloneReader(c) ==
    /\ pc[c] = "clone_reader"
    /\ \/ Goto(c, "take_writer")
       \/ Return(c, ProvisioningError)
    /\ UNCHANGED <<counter, sessions, lock, pumpVars, ptyVars, histVars>>

\* pair.master.take_writer().map_err(..)?
TakeWriter(c) ==
    /\ pc[c] = "take_writer"
    /\ \/ Goto(c, "insert_lock")
       \/ Return(c, ProvisioningError)
    /\ UNCHANGED <<counter, sessions, lock, pumpVars, ptyVars, histVars>>

\* let mut sessions = state.sessions.lock();
SpawnLock(c) ==
    /\ pc[c] = "insert_lock"
    /\ Acquire(CallerThread(c))
    /\ Goto(c, "insert")
    /\ UNCHANGED <<counter, sessions, pumpVars, ptyVars, histVars>>

\* sessions.insert(session_id, PtySession { writer, master }); the guard is
\* dropped at the end of the block.
SpawnInsert(c) ==
    /\ pc[c] = "insert"
    /\ sessions' = sessions \cup {arg[c]}
    /\ ptySize' = [ptySize EXCEPT ![arg[c]] = geom[c]]
    /\ Release(CallerThread(c))
    /\ Goto(c, "thread_spawn")
    /\ UNCHANGED <<counter, pumpVars, shellInput, histVars>>

\* thread::spawn(move || { .. }); log::info!(..); Ok(session_id)
SpawnThread(c) ==
    /\ pc[c] = "thread_spawn"
    /\ pump' = [pump EXCEPT ![arg[c]] = "read"]
    /\ returned' = [returned EXCEPT ![arg[c]] = @ + 1]
    /\ Return(c, Ok(arg[c]))
    /\ UNCHANGED <<counter, sessions, lock, waited, exitCode, events, reads, ptyVars,
                   killOk, removals, completed, env>>

SpawnTerminal(c) ==
    \/ SpawnCall(c)
    \/ OpenPty(c)
    \/ SpawnCommand(c)
    \/ FetchAdd(c)
    \/ TryCloneReader(c)
    \/ TakeWriter(c)
    \/ SpawnLock(c)
    \/ SpawnInsert(c)
    \/ SpawnThread(c)

(* --------------------------- write_terminal ---------------------------- *)

\* A caller invokes write_terminal(session_id, data).
WriteCall(c) ==
    /\ \E s \in KnownIds, d \in env.payloads : Call(c, "write_lock", s, d, NoSize)
    /\ UNCHANGED <<counter, sessions, lock, pumpVars, ptyVars, histVars>>

\* let mut sessions = state.sessions.lock();
WriteLock(c) ==
    /\ pc[c] = "write_lock"
    /\ Acquire(CallerThread(c))
    /\ Goto(c, "write_lookup")
    /\ UNCHANGED <<counter, sessions, pumpVars, ptyVars, histVars>>

\* WriteLookup without the presence test: the I/O is attempted regardless.
WriteLookup_NoCheck(c) ==
    /\ pc[c] = "write_lookup"
    /\ Goto(c, "write_all")
    /\ UNCHANGED <<counter, sessions, lock, pumpVars, ptyVars, histVars>>

\* if let Some(session) = sessions.get_mut(&session_id) { .. } else { Err(..) }
\* The guard `sessions` lives to the end of the function: the Some branch
\* goes on to the I/O with the mutex held.
WriteLookup(c) ==
    /\ pc[c] = "write_lookup"
    /\ IF arg[c] \in sessions
         THEN Goto(c, "write_all") /\ UNCHANGED lock
         ELSE Return(c, SessionNotFound) /\ Release(CallerThread(c))
    /\ UNCHANGED <<counter, sessions, pumpVars, ptyVars, histVars>>

\* WriteAll as a single write() call: the bytes that one call accepts are
\* taken for the whole of data.
WriteAll_SingleWrite(c) ==
    /\ pc[c] = "write_all"
    /\ \/ /\ shellInput' = [shellInput EXCEPT ![arg[c]] = Append(@, data[c][1])]
          /\ sent' = [sent EXCEPT ![c] = 1]
          /\ pc' = [pc EXCEPT ![c] = "flush"]
          /\ Silent
          /\ UNCHANGED <<lock, arg, data, geom, calls>>
       \/ /\ Return(c, IoError)
          /\ Release(CallerThread(c))
          /\ UNCHANGED shellInput
    /\ UNCHANGED <<counter, sessions, pumpVars, ptySize, histVars>>

\* session.writer.write_all(data.as_bytes()).map_err(..)?
\* write_all hands the rest of data to write() until none is left: each
\* write() accepts some n >= 1 of the remaining bytes, or fails, and the
\* bytes accepted before a failure stay written.
WriteAll(c) ==
    /\ pc[c] = "write_all"
    /\ \/ \E n \in 1 .. (Len(data[c]) - sent[c]) :
             /\ shellInput' = [shellInput EXCEPT ![arg[c]] =
                                 @ \o SubSeq(data[c], sent[c] + 1, sent[c] + n)]
             /\ sent' = [sent EXCEPT ![c] = @ + n]
             /\ pc' = [pc EXCEPT ![c] =
                         IF sent[c] + n = Len(data[c]) THEN "flush" ELSE "write_all"]
             /\ Silent
             /\ UNCHANGED <<lock, arg, data, geom, calls>>
       \/ /\ Return(c, IoError)
          /\ Release(CallerThread(c))
          /\ UNCHANGED shellInput
    /\ UNCHANGED <<counter, sessions, pumpVars, ptySize, histVars>>

\* session.writer.flush().map_err(..)?; Ok(())
Flush(c) ==
    /\ pc[c] = "flush"
    /\ \/ /\ Return(c, Ok({}))
          /\ completed' = [completed EXCEPT ![arg[c]] = Append(@, data[c])]
       \/ /\ Return(c, IoError)
          /\ UNCHANGED completed
    /\ Release(CallerThread(c))
    /\ UNCHANGED <<counter, sessions, pumpVars, ptyVars, returned, killOk, removals, env>>

WriteTerminal(c) ==
    \/ WriteCall(c)
    \/ WriteLock(c)
    \/ WriteLookup(c)
    \/ WriteAll(c)
    \/ Flush(c)

(* --------------------------- resize_terminal --------------------------- *)

\* A caller invokes resize_terminal(session_id, cols, rows).
ResizeCall(c) ==
    /\ \E s \in KnownIds : Call(c, "resize_lock", s, <<>>, Wide)
    /\ UNCHANGED <<counter, sessions, lock, pumpVars, ptyVars, histVars>>

\* let sessions = state.sessions.lock();
ResizeLock(c) ==
    /\ pc[c] = "resize_lock"
    /\ Acquire(CallerThread(c))
    /\ Goto(c, "resize_lookup")
    /\ UNCHANGED <<counter, sessions, pumpVars, ptyVars, histVars>>

\* if let Some(session) = sessions.get(&session_id) { .. } else { Err(..) }
ResizeLookup(c) ==
    /\ pc[c] = "resize_lookup"
    /\ IF arg[c] \in sessions
         THEN Goto(c, "resize") /\ UNCHANGED lock
         ELSE Return(c, SessionNotFound) /\ Release(CallerThread(c))
    /\ UNCHANGED <<counter, sessions, pumpVars, ptyVars, histVars>>

\* Resize dropping the session from the table when the resize call fails.
Resize_DropOnError(c) ==
    /\ pc[c] = "resize"
    /\ \/ /\ ptySize' = [ptySize EXCEPT ![arg[c]] = geom[c]]
          /\ Return(c, Ok({}))
          /\ UNCHANGED <<sessions, removals>>
       \/ /\ Return(c, IoError)
          /\ sessions' = sessions \ {arg[c]}
          /\ removals' = [removals EXCEPT ![arg[c]] = @ + 1]
          /\ UNCHANGED ptySize
    /\ Release(CallerThread(c))
    /\ UNCHANGED <<counter, pumpVars, shellInput, returned, killOk, completed, env>>

\* session.master.resize(PtySize { rows, cols, .. }).map_err(..)?; Ok(())
Resize(c) ==
    /\ pc[c] = "resize"
    /\ \/ /\ ptySize' = [ptySize EXCEPT ![arg[c]] = geom[c]]
          /\ Return(c, Ok({}))
       \/ /\ Return(c, IoError)
          /\ UNCHANGED ptySize
    /\ Release(CallerThread(c))
    /\ UNCHANGED <<counter, sessions, pumpVars, shellInput, histVars>>

ResizeTerminal(c) ==
    \/ ResizeCall(c)
    \/ ResizeLock(c)
    \/ ResizeLookup(c)
    \/ Resize(c)

(* ---------------------------- kill_terminal ---------------------------- *)

\* A caller invokes kill_terminal(session_id).
KillCall(c) ==
    /\ \E s \in KnownIds : Call(c, "kill_lock", s, <<>>, NoSize)
    /\ UNCHANGED <<counter, sessions, lock, pumpVars, ptyVars, histVars>>

\* let mut sessions = state.sessions.lock();
KillLock(c) ==
    /\ pc[c] = "kill_lock"
    /\ Acquire(CallerThread(c))
    /\ Goto(c, "kill_remove")
    /\ UNCHANGED <<counter, sessions, pumpVars, ptyVars, histVars>>

\* KillRemove that also publishes the exit event of the session it removed.
KillRemove_EmitsExit(c) ==
    /\ pc[c] = "kill_remove"
    /\ IF arg[c] \in sessions
         THEN /\ sessions' = sessions \ {arg[c]}
              /\ removals' = [removals EXCEPT ![arg[c]] = @ + 1]
              /\ killOk' = [killOk EXCEPT ![arg[c]] = @ + 1]
              /\ Emit(arg[c], TerminalExit(arg[c], "None"))
              /\ Return(c, Ok({}))
         ELSE /\ Return(c, SessionNotFound)
              /\ UNCHANGED <<sessions, removals, killOk, events>>
    /\ Release(CallerThread(c))
    /\ UNCHANGED <<counter, pump, waited, exitCode, reads, ptyVars, returned, completed, env>>

\* KillRemove that reports success whether or not the entry was there.
KillRemove_AlwaysOk(c) ==
    /\ pc[c] = "kill_remove"
    /\ sessions' = sessions \ {arg[c]}
    /\ removals' = [removals EXCEPT ![arg[c]] = IF arg[c] \in sessions THEN @ + 1 ELSE @]
    /\ killOk' = [killOk EXCEPT ![arg[c]] = @ + 1]
    /\ Return(c, Ok({}))
    /\ Release(CallerThread(c))
    /\ UNCHANGED <<counter, pumpVars, ptyVars, returned, completed, env>>

\* KillRemove that empties the table instead of removing one key.
KillRemove_Clear(c) ==
    /\ pc[c] = "kill_remove"
    /\ IF arg[c] \in sessions
         THEN /\ sessions' = {}
              /\ removals' = [s \in ArgIds |-> IF s \in sessions THEN removals[s] + 1 ELSE removals[s]]
              /\ killOk' = [killOk EXCEPT ![arg[c]] = @ + 1]
              /\ Return(c, Ok({}))
         ELSE /\ Return(c, SessionNotFound)
              /\ UNCHANGED <<sessions, removals, killOk>>
    /\ Release(CallerThread(c))
    /\ UNCHANGED <<counter, pumpVars, ptyVars, returned, completed, env>>

\* if sessions.remove(&session_id).is_some() { Ok(()) } else { Err(..) }
KillRemove(c) ==
    /\ pc[c] = "kill_remove"
    /\ IF arg[c] \in sessions
         THEN /\ sessions' = sessions \ {arg[c]}
              /\ removals' = [removals EXCEPT ![arg[c]] = @ + 1]
              /\ killOk' = [killOk EXCEPT ![arg[c]] = @ + 1]
              /\ Return(c, Ok({}))
         ELSE /\ Return(c, SessionNotFound)
              /\ UNCHANGED <<sessions, removals, killOk>>
    /\ Release(CallerThread(c))
    /\ UNCHANGED <<counter, pumpVars, ptyVars, returned, completed, env>>

KillTerminal(c) ==
    \/ KillCall(c)
    \/ KillLock(c)
    \/ KillRemove(c)

(* ---------------------------- list_terminals --------------------------- *)

\* A caller invokes list_terminals().
ListCall(c) ==
    /\ Call(c, "list_lock", NoId, <<>>, NoSize)
    /\ UNCHANGED <<counter, sessions, lock, pumpVars, ptyVars, histVars>>

\* let sessions = state.sessions.lock();
ListLock(c) ==
    /\ pc[c] = "list_lock"
    /\ Acquire(CallerThread(c))
    /\ Goto(c, "list_keys")
    /\ UNCHANGED <<counter, sessions, pumpVars, ptyVars, histVars>>

\* ListKeys returning without dropping the guard.
ListKeys_KeepsLock(c) ==
    /\ pc[c] = "list_keys"
    /\ Return(c, [tag |-> "List", val |-> sessions])
    /\ UNCHANGED <<counter, sessions, lock, pumpVars, ptyVars, histVars>>

\* sessions.keys().cloned().collect()
ListKeys(c) ==
    /\ pc[c] = "list_keys"
    /\ Return(c, [tag |-> "List", val |-> sessions])
    /\ Release(CallerThread(c))
    /\ UNCHANGED <<counter, sessions, pumpVars, ptyVars, histVars>>

ListTerminals(c) ==
    \/ ListCall(c)
    \/ ListLock(c)
    \/ ListKeys(c)

(* ------------------------------ pump thread ---------------------------- *)

\* String::from_utf8_lossy(&buf[..n]).to_string(): invalid bytes become the
\* replacement character, valid ones are kept.
FromUtf8Lossy(chunk) ==
    [i \in DOMAIN chunk |-> IF chunk[i] = "0xFF" THEN "U+FFFD" ELSE chunk[i]]

RECURSIVE TotalReads(_)
TotalReads(S) ==
    IF S = {} THEN 0
    ELSE LET s == CHOOSE x \in S : TRUE IN Len(reads[s]) + TotalReads(S \ {s})

\* PumpRead whose thread returns at once on a read error, without the wait,
\* the exit event and the cleanup.
PumpRead_ErrReturns(s) ==
    /\ pump[s] = "read"
    /\ Silent
    /\ \/ /\ pump' = [pump EXCEPT ![s] = "wait"]
          /\ UNCHANGED <<events, reads>>
       \/ /\ TotalReads(Ids) < env.maxReads
          /\ \E chunk \in env.chunks :
                /\ reads' = [reads EXCEPT ![s] = Append(@, chunk)]
                /\ Emit(s, TerminalOutput(s, FromUtf8Lossy(chunk)))
          /\ UNCHANGED pump
       \/ /\ pump' = [pump EXCEPT ![s] = "done"]
          /\ UNCHANGED <<events, reads>>
    /\ UNCHANGED <<counter, sessions, lock, callerVars, waited, exitCode, ptyVars, histVars>>

\* PumpRead decoding strictly: a chunk with a malformed byte in it is not
\* published and ends the loop.
PumpRead_StrictUtf8(s) ==
    /\ pump[s] = "read"
    /\ Silent
    /\ \/ /\ pump' = [pump EXCEPT ![s] = "wait"]
          /\ UNCHANGED <<events, reads>>
       \/ /\ TotalReads(Ids) < env.maxReads
          /\ \E chunk \in env.chunks :
                /\ reads' = [reads EXCEPT ![s] = Append(@, chunk)]
                /\ IF \E i \in DOMAIN chunk : chunk[i] = "0xFF"
                     THEN /\ pump' = [pump EXCEPT ![s] = "wait"]
                          /\ UNCHANGED events
                     ELSE /\ Emit(s, TerminalOutput(s, chunk))
                          /\ UNCHANGED pump
    /\ UNCHANGED <<counter, sessions, lock, callerVars, waited, exitCode, ptyVars, histVars>>

\* PumpRead publishing under the identifier handed out last instead of the
\* pump's own sid.
PumpRead_LatestId(s) ==
    /\ pump[s] = "read"
    /\ Silent
    /\ \/ /\ pump' = [pump EXCEPT ![s] = "wait"]
          /\ UNCHANGED <<events, reads>>
       \/ /\ TotalReads(Ids) < env.maxReads
          /\ \E chunk \in env.chunks :
                /\ reads' = [reads EXCEPT ![s] = Append(@, chunk)]
                /\ Emit(s, TerminalOutput(counter - 1, FromUtf8Lossy(chunk)))
          /\ UNCHANGED pump
    /\ UNCHANGED <<counter, sessions, lock, callerVars, waited, exitCode, ptyVars, histVars>>

\* match reader.read(&mut buf) { Ok(0) => break, Ok(n) => emit, Err => break }
PumpRead(s) ==
    /\ pump[s] = "read"
    /\ Silent
    /\ \/ /\ pump' = [pump EXCEPT ![s] = "wait"]
          /\ UNCHANGED <<events, reads>>
       \/ /\ TotalReads(Ids) < env.maxReads
          /\ \E chunk \in env.chunks :
                /\ reads' = [reads EXCEPT ![s] = Append(@, chunk)]
                /\ Emit(s, TerminalOutput(s, FromUtf8Lossy(chunk)))
          /\ UNCHANGED pump
       \/ /\ pump' = [pump EXCEPT ![s] = "wait"]
          /\ UNCHANGED <<events, reads>>
    /\ UNCHANGED <<counter, sessions, lock, callerVars, waited, exitCode, ptyVars, histVars>>

\* .ok().and_then(|s| if s.success() { Some(0) } else { Some(1) })
ExitCodeOf(w) ==
    CASE w = "Ok(success)" -> "Some(0)"
      [] w = "Ok(failure)" -> "Some(1)"
      [] w = "Err" -> "None"

\* let exit_code = child.wait().ok().and_then(..)
PumpWait(s) ==
    /\ pump[s] = "wait"
    /\ Silent
    /\ \E w \in env.waits :
          /\ waited' = [waited EXCEPT ![s] = w]
          /\ exitCode' = [exitCode EXCEPT ![s] = ExitCodeOf(w)]
    /\ pump' = [pump EXCEPT ![s] = "emit_exit"]
    /\ UNCHANGED <<counter, sessions, lock, callerVars, events, reads, ptyVars, histVars>>

\* PumpEmitExit inside the read loop: the pump publishes the exit event and
\* goes back to reading.
PumpEmitExit_ThenRead(s) ==
    /\ pump[s] = "emit_exit"
    /\ Silent
    /\ Emit(s, TerminalExit(s, exitCode[s]))
    /\ pump' = [pump EXCEPT ![s] = IF ExitCount(s) = 0 THEN "read" ELSE "cleanup_lock"]
    /\ UNCHANGED <<counter, sessions, lock, callerVars, waited, exitCode, reads, ptyVars,
                   histVars>>

\* PumpEmitExit with the emit call left out.
PumpEmitExit_NoEmit(s) ==
    /\ pump[s] = "emit_exit"
    /\ Silent
    /\ pump' = [pump EXCEPT ![s] = "cleanup_lock"]
    /\ UNCHANGED <<counter, sessions, lock, callerVars, waited, exitCode, events, reads,
                   ptyVars, histVars>>

\* app_handle.emit("terminal-exit", TerminalExit { session_id: sid, exit_code })
PumpEmitExit(s) ==
    /\ pump[s] = "emit_exit"
    /\ Silent
    /\ Emit(s, TerminalExit(s, exitCode[s]))
    /\ pump' = [pump EXCEPT ![s] = "cleanup_lock"]
    /\ UNCHANGED <<counter, sessions, lock, callerVars, waited, exitCode, reads, ptyVars,
                   histVars>>

\* let mut sessions = state.sessions.lock();
PumpLock(s) ==
    /\ pump[s] = "cleanup_lock"
    /\ Silent
    /\ Acquire(PumpThread(s))
    /\ pump' = [pump EXCEPT ![s] = "cleanup"]
    /\ UNCHANGED <<counter, sessions, callerVars, waited, exitCode, events, reads, ptyVars,
                   histVars>>

\* PumpRemove that leaves the entry in the table.
PumpRemove_Skip(s) ==
    /\ pump[s] = "cleanup"
    /\ Silent
    /\ Release(PumpThread(s))
    /\ pump' = [pump EXCEPT ![s] = "done"]
    /\ UNCHANGED <<counter, sessions, callerVars, waited, exitCode, events, reads, ptyVars,
                   histVars>>

\* sessions.remove(&sid); the thread ends and drops the guard.
PumpRemove(s) ==
    /\ pump[s] = "cleanup"
    /\ Silent
    /\ sessions' = sessions \ {s}
    /\ removals' = [removals EXCEPT ![s] = IF s \in sessions THEN @ + 1 ELSE @]
    /\ Release(PumpThread(s))
    /\ pump' = [pump EXCEPT ![s] = "done"]
    /\ UNCHANGED <<counter, callerVars, waited, exitCode, events, reads, ptyVars, returned,
                   killOk, completed, env>>

Pump(s) ==
    \/ PumpRead(s)
    \/ PumpWait(s)
    \/ PumpEmitExit(s)
    \/ PumpLock(s)
    \/ PumpRemove(s)

(* ---------------------------- specification ---------------------------- *)

Next ==
    \/ \E c \in Callers : SpawnTerminal(c)
    \/ \E c \in Callers : WriteTerminal(c)
    \/ \E c \in Callers : ResizeTerminal(c)
    \/ \E c \in Callers : KillTerminal(c)
    \/ \E c \in Callers : ListTerminals(c)
    \/ \E s \in Ids : Pump(s)

Spec == Init /\ [][Next]_vars

\* The session lifecycle alone: callers spawn, kill and list, and no caller
\* writes or resizes.
NextLife ==
    \/ \E c \in Callers : SpawnTerminal(c)
    \/ \E c \in Callers : KillTerminal(c)
    \/ \E c \in Callers : ListTerminals(c)
    \/ \E s \in Ids : Pump(s)

SpecLife == Init /\ [][NextLife]_vars

\* The steps a caller takes while it holds the table mutex: the lookup, the
\* PTY I/O calls, the insert, the remove and the collecting of the keys.
Holding(c) ==
    \/ SpawnInsert(c)
    \/ WriteLookup(c) \/ WriteAll(c) \/ Flush(c)
    \/ ResizeLookup(c) \/ Resize(c)
    \/ KillRemove(c)
    \/ ListKeys(c)

\* The steps in which a caller takes the table mutex.
Locking(c) ==
    SpawnLock(c) \/ WriteLock(c) \/ ResizeLock(c) \/ KillLock(c) \/ ListLock(c)

\* A thread that holds the mutex goes on running, and its PTY I/O call
\* returns; a thread blocked in lock() gets the mutex if it stays free
\* (parking_lot promises more: it hands a mutex over fairly in the end).
\* Nothing is asked of a caller invoking a command or of a pump in read or
\* wait.
Fairness ==
    /\ \A c \in Callers : WF_vars(Holding(c)) /\ WF_vars(Locking(c))
    /\ \A s \in Ids : WF_vars(PumpRemove(s)) /\ WF_vars(PumpLock(s))

SpecFair == InitFor(FairEnv) /\ [][Next]_vars /\ Fairness

\* Sessions and the writes to them: callers spawn and write the payloads of
\* WriteEnv, the pumps run.
NextWrite ==
    \/ \E c \in Callers : SpawnTerminal(c)
    \/ \E c \in Callers : WriteTerminal(c)
    \/ \E s \in Ids : Pump(s)

SpecWrite == InitFor(WriteEnv) /\ [][NextWrite]_vars

\* Sessions and their pumps: callers spawn, the pumps run.
NextPump ==
    \/ \E c \in Callers : SpawnTerminal(c)
    \/ \E s \in Ids : Pump(s)

\* The pumps in the environment of PumpEnv.
SpecPump == InitFor(PumpEnv) /\ [][NextPump]_vars

\* The pumps in the environment of BusEnv.
SpecBus == InitFor(BusEnv) /\ [][NextPump]_vars

\* Sessions that callers can also kill.
NextExit ==
    \/ \E c \in Callers : SpawnTerminal(c)
    \/ \E c \in Callers : KillTerminal(c)
    \/ \E s \in Ids : Pump(s)

\* The end of the pumps in the environment of ExitEnv.
SpecExit == InitFor(ExitEnv) /\ [][NextExit]_vars

(* ================================ claims ================================ *)

\* Positions of a spawn call that has drawn its identifier.
PostAlloc == {"clone_reader", "take_writer", "insert_lock", "insert", "thread_spawn"}
\* Positions of a command performing PTY I/O.
IoPcs == {"write_all", "flush", "resize"}

\* Caller c completes the lookup of write, resize or kill in this step.
LookupStep(c) ==
    /\ pc[c] \in {"write_lookup", "resize_lookup", "kill_remove"}
    /\ pc'[c] # pc[c]

\* Caller c completes kill_terminal's remove in this step.
KillStep(c) == pc[c] = "kill_remove" /\ pc'[c] # pc[c]

\* Caller c takes a step of kill_terminal.
KillAnyStep(c) == pc[c] \in {"kill_lock", "kill_remove"} /\ pc'[c] # pc[c]

\* A spawn call of caller c returns its error in this step.
SpawnFailStep(c) ==
    /\ pc[c] \in {"openpty", "spawn_command", "clone_reader", "take_writer"}
    /\ pc'[c] = "idle"

(* C1: at most one terminal-exit event is ever published per session, under
   every interleaving of kill calls with the pump's termination; a
   terminal-exit event is published only by the session's own pump, in its
   emit step, and no step of kill publishes any event. *)
C1_ExitAtMostOnce ==
    /\ [](\A s \in Ids : ExitCount(s) <= 1)
    /\ [][\A s \in Ids :
            events'[s] # events[s] =>
              /\ pump[s] \in {"read", "emit_exit"}
              /\ \A c \in Callers : pc'[c] = pc[c]
              /\ (ExitCount(s)' > ExitCount(s) =>
                    pump[s] = "emit_exit" /\ pump'[s] = "cleanup_lock")]_vars
    /\ [][\A c \in Callers : KillAnyStep(c) => events' = events]_vars

\* A kill succeeded on a session and its pump has published the exit event
\* and finished: both the kill and the pump's termination have happened.
C1_Witness ==
    \E s \in Ids : killOk[s] = 1 /\ ExitCount(s) = 1 /\ pump[s] = "done"

(* C2 (as claimed): once the terminal-exit event of a session is published,
   its identifier is not in the table, so list does not return it and write,
   resize and kill on it find nothing. *)
C2_ExitImpliesAbsent ==
    \A s \in Ids : ExitCount(s) > 0 => s \notin sessions

(* C3: the entry of an identifier is removed at most once and at most one
   kill call per identifier returns Ok (and only by removing); a remove on
   an absent identifier, by kill or by the pump's cleanup, changes neither
   the table nor anything recorded as removed. *)
C3_RemovedOnce ==
    /\ [](\A s \in ArgIds : removals[s] <= 1 /\ killOk[s] <= removals[s])
    /\ [][\A c \in Callers :
            (KillStep(c) /\ arg[c] \notin sessions) =>
               /\ sessions' = sessions
               /\ removals' = removals
               /\ result'[c] = SessionNotFound]_vars
    /\ [][\A s \in Ids :
            (pump[s] = "cleanup" /\ pump'[s] = "done" /\ s \notin sessions) =>
               sessions' = sessions /\ removals' = removals]_vars

\* kill removed the entry first, the pump's cleanup then found it absent,
\* and a second kill on the same identifier was turned away.
C3_Witness ==
    \E s \in Ids :
       /\ killOk[s] = 1 /\ removals[s] = 1 /\ pump[s] = "done"
       /\ \E c \in Callers : result[c] = SessionNotFound

(* C4: no identifier is returned by two successful spawn calls, and two
   spawn calls in flight at once never hold the same identifier, whatever
   failed spawns, kills and pump cleanups happen in between. *)
C4_UniqueIds ==
    /\ \A s \in Ids : returned[s] <= 1
    /\ \A c1, c2 \in Callers :
          (c1 # c2 /\ pc[c1] \in PostAlloc /\ pc[c2] \in PostAlloc) => arg[c1] # arg[c2]
    /\ \A c \in Callers, s \in Ids :
          (pc[c] \in PostAlloc /\ returned[s] > 0) => arg[c] # s

\* Two spawn calls are in flight at once, both past fetch_add.
C4_Witness ==
    \E c1, c2 \in Callers :
       c1 # c2 /\ pc[c1] \in PostAlloc /\ pc[c2] \in PostAlloc

(* C5: an identifier that a spawn call has returned is in the table, and so
   in every list result, until its exit event has been published or a kill
   on it has succeeded; a pump that has been started finds its entry
   inserted. list returns exactly the keys of the table. *)
C5_ListedUntilExitOrKill ==
    /\ [](\A s \in Ids :
            (returned[s] > 0 \/ pump[s] # "none") =>
               (s \in sessions \/ ExitCount(s) > 0 \/ killOk[s] > 0))
    /\ [][\A c \in Callers :
            (pc[c] = "list_keys" /\ pc'[c] = "idle") =>
               result'[c] = [tag |-> "List", val |-> sessions]]_vars

\* A list call returned a set containing an identifier that spawn returned.
C5_Witness ==
    \E c \in Callers, s \in Ids :
       /\ result[c].tag = "List" /\ s \in result[c].val
       /\ returned[s] = 1

(* C6: a write, resize or kill whose identifier is not in the table when it
   looks it up returns SessionNotFound and changes neither the table nor any
   PTY (no bytes written, no geometry changed); no command is ever at a PTY
   I/O call for an identifier that is not in the table. *)
C6_AbsentIsNotFound ==
    /\ [][\A c \in Callers :
            (LookupStep(c) /\ arg[c] \notin sessions) =>
               /\ result'[c] = SessionNotFound
               /\ pc'[c] = "idle"
               /\ sessions' = sessions
               /\ shellInput' = shellInput
               /\ ptySize' = ptySize]_vars
    /\ [](\A c \in Callers : pc[c] \in IoPcs => arg[c] \in sessions)

\* A command on a removed identifier was turned away while another session
\* is still registered.
C6_Witness ==
    \E c \in Callers, s \in Ids :
       /\ result[c] = SessionNotFound
       /\ removals[s] = 1
       /\ sessions # {}

(* C7 (as claimed): write and resize have released the table lock before
   they perform the PTY write, flush or resize call. *)
C7_IoWithoutLock ==
    \A c \in Callers : pc[c] \in IoPcs => lock # CallerThread(c)

(* C8: a kill on an identifier in the table returns Ok and removes exactly
   that entry, changing no other entry, no PTY and no pump; afterwards the
   identifier is not in the table (a further kill finds nothing, list does
   not return it); once kill holds the lock its completion is enabled
   whatever the child and the pump do. *)
C8_KillRemovesOne ==
    /\ [][\A c \in Callers :
            (KillStep(c) /\ arg[c] \in sessions) =>
               /\ result'[c] = Ok({})
               /\ sessions' = sessions \ {arg[c]}
               /\ pump' = pump
               /\ events' = events
               /\ shellInput' = shellInput
               /\ ptySize' = ptySize]_vars
    /\ [](\A s \in ArgIds : killOk[s] > 0 => s \notin sessions)
    /\ [](\A c \in Callers : pc[c] = "kill_remove" => ENABLED KillRemove(c))

\* A kill succeeded while the killed session's pump is still reading and
\* another session is still registered.
C8_Witness ==
    \E s \in Ids :
       /\ killOk[s] = 1 /\ pump[s] = "read"
       /\ sessions # {} /\ s \notin sessions

(* C9 (as claimed): a spawn call that fails has left no residual state: when
   it returns its error it has drawn no identifier from the counter, and its
   failing step changes neither the counter, the table nor any pump. *)
C9_FailedSpawnNoResidue ==
    [][\A c \in Callers :
          SpawnFailStep(c) =>
             /\ arg[c] = NoId
             /\ counter' = counter
             /\ sessions' = sessions
             /\ pump' = pump]_vars

(* C11: an identifier that has been removed from the table, by kill or by
   the pump's cleanup, is never inserted again: every insertion is of an
   identifier that was never inserted or removed before, so the membership
   of an identifier goes absent, present, absent at most once. *)
C11_NeverReinserted ==
    /\ [][\A s \in Ids :
            (s \notin sessions /\ s \in sessions') =>
               /\ removals[s] = 0
               /\ returned[s] = 0
               /\ pump[s] = "none"]_vars
    /\ [](\A s \in Ids : removals[s] > 0 => s \notin sessions)

\* An identifier has been removed and a spawn call that drew a later
\* identifier has just inserted its own entry.
C11_Witness ==
    \E c \in Callers, s \in Ids :
       /\ pc[c] = "thread_spawn" /\ arg[c] \in sessions
       /\ removals[s] = 1 /\ s < arg[c]

\* The bytes of the strings in seq, one after another.
RECURSIVE Flatten(_)
Flatten(seq) == IF seq = <<>> THEN <<>> ELSE Head(seq) \o Flatten(Tail(seq))

\* The strings of blocks occur in stream whole and contiguous, in the order
\* of blocks and without overlap.
RECURSIVE Embedded(_, _)
Embedded(blocks, stream) ==
    IF blocks = <<>> THEN TRUE
    ELSE LET b == Head(blocks) IN
         \E i \in 0 .. (Len(stream) - Len(b)) :
            /\ SubSeq(stream, i + 1, i + Len(b)) = b
            /\ Embedded(Tail(blocks), SubSeq(stream, i + Len(b) + 1, Len(stream)))

\* A write call on session s is between its first write() and its return.
WriteInFlight(s) ==
    \E c \in Callers : pc[c] \in {"write_all", "flush"} /\ arg[c] = s

\* The write call of caller c returns Ok in this step.
WriteOkStep(c) == pc[c] = "flush" /\ result'[c] = Ok({})

(* C12 (as claimed): for a single session, whenever no write call on it is
   in flight, the bytes delivered to the shell's input are exactly the
   concatenation of the data of the write calls that returned Ok, in the
   order those calls returned. *)
C12_InputIsSuccessfulWrites ==
    \A s \in Ids : ~WriteInFlight(s) => shellInput[s] = Flatten(completed[s])

(* C12 (amended): for a single session, the data of every write call that
   returns Ok is in the shell's input whole and contiguous, in the order
   those calls returned; bytes are only ever appended, by the one call that
   holds the table lock, which appends the next bytes of its own data; and
   when a write call returns Ok its data is the end of the input. The input
   may hold, between those, bytes of calls that returned IoError. *)
C12_SuccessfulWritesInOrder ==
    /\ [](\A s \in Ids : Embedded(completed[s], shellInput[s]))
    /\ [][\A s \in Ids :
            shellInput'[s] # shellInput[s] =>
               \E c \in Callers :
                  /\ pc[c] = "write_all" /\ arg[c] = s
                  /\ lock = CallerThread(c) /\ lock' = lock
                  /\ sent'[c] > sent[c]
                  /\ shellInput'[s] =
                        shellInput[s] \o SubSeq(data[c], sent[c] + 1, sent'[c])]_vars
    /\ [][\A c \in Callers :
            WriteOkStep(c) =>
               LET d == data[c]
                   inp == shellInput[arg[c]]
               IN  /\ sent[c] = Len(d)
                   /\ Len(inp) >= Len(d)
                   /\ SubSeq(inp, Len(inp) - Len(d) + 1, Len(inp)) = d]_vars

\* Two write calls with different data have returned Ok on one session.
C12_Witness ==
    \E s \in Ids :
       /\ Len(completed[s]) = 2
       /\ completed[s][1] # completed[s][2]

\* The terminal-output events among those pump s handed to the bus.
Outputs(s) == SelectSeq(events[s], LAMBDA e : e.topic = "terminal-output")

(* C13: every event a pump hands to the bus carries the pump's own session
   id, so the events carrying id s are those of s's pump; and the
   terminal-output events of s are, one per read and in the order of the
   reads, the decoded chunks of the non-empty reads from s's own PTY. *)
C13_OutputsAreOwnReads ==
    \A s \in Ids :
       /\ \A i \in 1 .. Len(events[s]) : events[s][i].session_id = s
       /\ Len(Outputs(s)) = Len(reads[s])
       /\ \A i \in 1 .. Len(reads[s]) :
             Outputs(s)[i].body = FromUtf8Lossy(reads[s][i])

\* Two pumps are reading at once and each has read and published a chunk,
\* one of text and one of malformed bytes.
C13_Witness ==
    \E s1, s2 \in Ids :
       /\ s1 # s2 /\ pump[s1] = "read" /\ pump[s2] = "read"
       /\ reads[s1] = << <<"h">> >> /\ reads[s2] = << <<"0xFF">> >>
       /\ Len(Outputs(s1)) = 1 /\ Len(Outputs(s2)) = 1

\* The spawn call of caller c draws its identifier in this step.
DrawStep(c) == pc[c] = "fetch_add" /\ pc'[c] = "clone_reader"

\* The spawn call of caller c returns Ok in this step.
SpawnOkStep(c) == pc[c] = "thread_spawn" /\ pc'[c] = "idle"

(* C14: when the first command of the process is a spawn call that
   succeeds, it returns identifier 0, and a list call that follows it as the
   second command returns exactly {0} as long as the pump of session 0 has
   not finished its cleanup. A successful spawn call returns the identifier
   it drew from the counter, and that identifier is strictly greater than
   every identifier a spawn call had returned before the draw, so than every
   identifier returned before the call was made. *)
C14_FirstIsZeroThenIncreasing ==
    /\ [][\A c \in Callers :
            (SpawnOkStep(c) /\ calls = 1) => result'[c] = Ok(0)]_vars
    /\ [][\A c \in Callers :
            (/\ pc[c] = "list_keys" /\ pc'[c] = "idle"
             /\ calls = 2 /\ returned[0] = 1 /\ pump[0] # "done") =>
               result'[c] = [tag |-> "List", val |-> {0}]]_vars
    /\ [][\A c \in Callers :
            DrawStep(c) => \A s \in Ids : returned[s] > 0 => arg'[c] > s]_vars
    /\ [][\A c \in Callers :
            (pc[c] \in PostAlloc /\ pc'[c] \in PostAlloc) => arg'[c] = arg[c]]_vars
    /\ [][\A c \in Callers : SpawnOkStep(c) => result'[c] = Ok(arg[c])]_vars

\* The first command was a spawn that returned 0, the second a list that
\* has just returned {0}.
C14_Witness ==
    \E c \in Callers :
       /\ calls = 2 /\ returned[0] = 1
       /\ result[c] = [tag |-> "List", val |-> {0}]

(* C15: a pump leaves its read loop only by a read that delivered nothing
   (a zero-length read or a read error), and goes on to wait for the child;
   every read that delivers a chunk, of text or with malformed bytes in it,
   hands exactly one terminal-output event with the decoded chunk to the
   bus and leaves the pump in the loop, whether the bus takes the event or
   refuses it. *)
C15_LoopEndsOnlyOnEofOrError ==
    /\ [][\A s \in Ids :
            (pump[s] = "read" /\ pump'[s] # "read") =>
               /\ pump'[s] = "wait"
               /\ reads'[s] = reads[s]
               /\ events'[s] = events[s]]_vars
    /\ [][\A s \in Ids :
            reads'[s] # reads[s] =>
               /\ pump[s] = "read" /\ pump'[s] = "read"
               /\ Len(reads'[s]) = Len(reads[s]) + 1
               /\ Len(events'[s]) = Len(events[s]) + 1
               /\ LET ev == events'[s][Len(events'[s])]
                  IN  /\ ev.topic = "terminal-output"
                      /\ ev.body = FromUtf8Lossy(reads'[s][Len(reads'[s])])]_vars
    /\ [][\A s \in Ids :
            (pump[s] = "read" /\ events'[s] # events[s]) => pump'[s] = "read"]_vars

\* A pump is still in its loop after a read of a chunk with a malformed
\* byte whose event, carrying the replacement marker, the bus refused.
C15_Witness ==
    \E s \in Ids :
       /\ pump[s] = "read" /\ Len(events[s]) >= 1
       /\ LET ev == events[s][Len(events[s])]
          IN  /\ ev.topic = "terminal-output"
              /\ ~ev.accepted
              /\ \E i \in DOMAIN ev.body : ev.body[i] = "U+FFFD"

\* The order of a pump thread's positions.
PumpOrder ==
    {<<"none", "read">>, <<"read", "wait">>, <<"wait", "emit_exit">>,
     <<"emit_exit", "cleanup_lock">>, <<"cleanup_lock", "cleanup">>,
     <<"cleanup", "done">>}

(* C16: a pump that leaves its read loop, on end of file or on a read error,
   goes through the same sequence: it waits for the child, then hands one
   terminal-exit event to the bus whose status is 0 when the child
   succeeded, 1 when it did not and absent when the wait failed, and only
   then takes the lock and removes the session's entry. It does all of this
   also when kill has removed the entry before, and its removal then
   changes nothing. *)
C16_TerminationSequence ==
    /\ [][\A s \in Ids :
            pump'[s] # pump[s] => <<pump[s], pump'[s]>> \in PumpOrder]_vars
    /\ [][\A s \in Ids :
            (pump[s] = "wait" /\ pump'[s] = "emit_exit") =>
               /\ waited'[s] \in {"Ok(success)", "Ok(failure)", "Err"}
               /\ waited'[s] = "Ok(success)" => exitCode'[s] = "Some(0)"
               /\ waited'[s] = "Ok(failure)" => exitCode'[s] = "Some(1)"
               /\ waited'[s] = "Err" => exitCode'[s] = "None"
               /\ events' = events /\ sessions' = sessions]_vars
    /\ [][\A s \in Ids :
            (pump[s] = "emit_exit" /\ pump'[s] = "cleanup_lock") =>
               /\ Len(events'[s]) = Len(events[s]) + 1
               /\ LET ev == events'[s][Len(events'[s])]
                  IN  /\ ev.topic = "terminal-exit"
                      /\ ev.session_id = s
                      /\ ev.body = exitCode[s]
               /\ sessions' = sessions]_vars
    /\ [][\A s \in Ids :
            (pump[s] = "cleanup" /\ pump'[s] = "done") =>
               /\ sessions' = sessions \ {s}
               /\ (s \notin sessions => sessions' = sessions /\ removals' = removals)
               /\ events' = events]_vars
    /\ [](\A s \in Ids :
            pump[s] \in {"cleanup_lock", "cleanup", "done"} =>
               /\ waited[s] # "unset"
               /\ ExitCount(s) = 1
               /\ events[s][Len(events[s])].body = exitCode[s])

\* kill removed the entry, and the pump then waited, found that the wait
\* failed, published the exit event without a status and finished.
C16_Witness ==
    \E s \in Ids :
       /\ killOk[s] = 1 /\ pump[s] = "done" /\ waited[s] = "Err"
       /\ ExitCount(s) = 1
       /\ events[s][Len(events[s])] =
             [topic |-> "terminal-exit", session_id |-> s, body |-> "None",
              accepted |-> TRUE]

\* The write or resize call of caller c returns IoError in this step.
IoFailStep(c) == pc[c] \in IoPcs /\ result'[c] = IoError

(* C17: a write or resize whose write, flush or resize call fails on a
   session in the table returns IoError in that very step, without another
   attempt, and the step changes neither the table nor any PTY: the session
   is still registered afterwards. IoError is returned in no other way, and
   an entry leaves the table only by a kill's remove or by the cleanup of
   its own pump. *)
C17_IoErrorKeepsSession ==
    /\ [][\A c \in Callers :
            IoFailStep(c) =>
               /\ pc'[c] = "idle"
               /\ arg[c] \in sessions
               /\ sessions' = sessions
               /\ shellInput' = shellInput
               /\ ptySize' = ptySize
               /\ pump' = pump]_vars
    /\ [][\A c \in Callers : result'[c] = IoError => pc[c] \in IoPcs]_vars
    /\ [][\A s \in Ids :
            (s \in sessions /\ s \notin sessions') =>
               \/ \E c \in Callers : KillStep(c) /\ arg[c] = s
               \/ pump[s] = "cleanup" /\ pump'[s] = "done"]_vars

\* A command on the only session there is has just returned IoError, and
\* the session is still in the table.
C17_Witness ==
    \E c \in Callers :
       /\ result[c] = IoError
       /\ counter = 1 /\ sessions = {0}

(* C18: among the events a session's pump hands to the bus, no
   terminal-output event comes after the terminal-exit event, and once the
   exit event is out the pump publishes nothing more; this holds also when
   kill is called while the pump is still reading. *)
C18_NoOutputAfterExit ==
    /\ [](\A s \in Ids :
            \A i, j \in 1 .. Len(events[s]) :
               (events[s][i].topic = "terminal-exit" /\ i < j) =>
                  events[s][j].topic # "terminal-output")
    /\ [][\A s \in Ids : ExitCount(s) > 0 => events'[s] = events[s]]_vars
    /\ [][\A s \in Ids :
            OutputCount(s)' > OutputCount(s) => pump[s] = "read"]_vars

\* A kill succeeded on a session whose pump published a chunk and then the
\* exit event.
C18_Witness ==
    \E s \in Ids :
       /\ killOk[s] = 1
       /\ Len(events[s]) = 2
       /\ events[s][1].topic = "terminal-output"
       /\ events[s][2].topic = "terminal-exit"

\* Positions of a pump thread that has been started and has not finished
\* its cleanup.
PumpAlive == {"read", "wait", "emit_exit", "cleanup_lock", "cleanup"}

(* C19: every identifier in the table is strictly below the counter and is
   that of a session whose pump is running, not yet through its cleanup, or
   is about to be started by the spawn call that has just inserted it; so
   when every pump that was started has finished and no spawn call is about
   to start one, the table is empty. *)
C19_TableHasLivePumps ==
    /\ \A s \in sessions :
          /\ s \in Ids /\ s < counter
          /\ \/ pump[s] \in PumpAlive
             \/ /\ pump[s] = "none"
                /\ \E c \in Callers : pc[c] = "thread_spawn" /\ arg[c] = s
    /\ ((\A s \in Ids : pump[s] \notin PumpAlive) /\
        (\A c \in Callers : pc[c] # "thread_spawn")) => sessions = {}

\* Two sessions were spawned, one of them was never killed, every pump has
\* finished and the table is empty.
C19_Witness ==
    /\ \E s, t \in Ids :
          /\ s # t /\ pump[s] = "done" /\ pump[t] = "done"
          /\ killOk[s] = 0 /\ removals[s] = 1
    /\ \A s \in Ids : pump[s] \notin PumpAlive
    /\ \A c \in Callers : pc[c] = "idle"
    /\ sessions = {}

\* Positions of a caller blocked in lock().
LockPcs == {"insert_lock", "write_lock", "resize_lock", "kill_lock", "list_lock"}
\* Positions of a caller that holds the guard.
HoldPcs ==
    {"insert", "write_lookup", "write_all", "flush", "resize_lookup", "resize",
     "kill_remove", "list_keys"}

(* C20: the table lock cannot deadlock. A pump takes the lock only in its
   final cleanup, after it has published the exit event, and holds it at no
   other position (not in read, not in wait); a thread blocked in lock()
   does not hold the lock already, and a caller holds it only between its
   lock() and its return. So, when holders go on running and their PTY I/O
   calls return, every thread blocked in lock() gets the lock. *)
C20_NoLockDeadlock ==
    /\ [](\A s \in Ids :
            /\ lock = PumpThread(s) => (pump[s] = "cleanup" /\ ExitCount(s) = 1)
            /\ pump[s] = "cleanup" => lock = PumpThread(s))
    /\ [](\A c \in Callers :
            /\ pc[c] \in LockPcs => lock # CallerThread(c)
            /\ lock = CallerThread(c) <=> pc[c] \in HoldPcs)
    /\ [][lock' # lock => (lock = NoThread \/ lock' = NoThread)]_vars
    /\ [][\A s \in Ids :
            /\ (lock # PumpThread(s) /\ lock' = PumpThread(s)) =>
                  pump[s] = "cleanup_lock"
            /\ pump[s] \in {"cleanup", "done"} => pump'[s] \in {"cleanup", "done"}
            /\ pump[s] = "done" => pump'[s] = "done"]_vars
    /\ \A c \in Callers : (pc[c] \in LockPcs) ~> (lock = CallerThread(c))
    /\ \A s \in Ids : (pump[s] = "cleanup_lock") ~> (lock = PumpThread(s))

\* A caller is inside a PTY I/O call with the lock held while a pump is
\* blocked in lock() for its cleanup.
C20_Witness ==
    \E c \in Callers, s \in Ids :
       /\ pc[c] \in IoPcs /\ lock = CallerThread(c)
       /\ pump[s] = "cleanup_lock"

====
